---- MODULE Spec2Model ----
(***************************************************************************)
(* Model of scripts/other/createemail/main.py: one run of the report       *)
(* pipeline (fetch correspondents, tags and documents, build the subject,  *)
(* build the HTML body with one detail request per document, hand both to  *)
(* the `mail` command).                                                    *)
(*                                                                         *)
(* Encoding of the JSON data:                                              *)
(*  - a JSON object is a record; a key that is absent is absent from the   *)
(*    record's DOMAIN, so `"id" in t` is  "id" \in DOMAIN t  and           *)
(*    d.get(k, default) is Get(d, k, default);                             *)
(*  - a created_date string is a record [fmt, y, m, d]: fmt = "ymd" for a  *)
(*    string of the shape YYYY-MM-DD (whose fields may still be no         *)
(*    calendar date), "other" for any other non-empty string, "empty" for  *)
(*    "" and "none" for None / JSON null;                                  *)
(*  - the value of calculate_age is a record [isint, days]: an int, or the *)
(*    string "N/A" (isint = FALSE);                                        *)
(*  - the tags field of a document is [null, ids]: a list of ids, or JSON  *)
(*    null (a malformed record);                                           *)
(*  - a URL-or-None is a set with at most one element.                     *)
(***************************************************************************)
EXTENDS Integers, Sequences, FiniteSets, TLC

(* ---- bounds of the model ---- *)
NPages == 2
MaxDocs == 2
MaxTagRequests == 3

VARIABLES pc, server, correspondents, url, all_tags, docs, subject_line,
          sorted_docs, idx, lines, html_body, log, fetched, trace, mail

vars == <<pc, server, correspondents, url, all_tags, docs, subject_line,
          sorted_docs, idx, lines, html_body, log, fetched, trace, mail>>

Pages == 1..NPages

(* d.get(k, default) *)
Get(d, k, default) == IF k \in DOMAIN d THEN d[k] ELSE default

(* ---- dates and ages ---- *)
NoneDate == [fmt |-> "none", y |-> 0, m |-> 0, d |-> 0]
EmptyDate == [fmt |-> "empty", y |-> 0, m |-> 0, d |-> 0]
JunkDate == [fmt |-> "other", y |-> 0, m |-> 0, d |-> 0]
Ymd(y, m, d) == [fmt |-> "ymd", y |-> y, m |-> m, d |-> d]

(* date.today() of the run *)
Today == Ymd(2025, 3, 3)

IsLeap(y) == (y % 4 = 0) /\ ((y % 100 # 0) \/ (y % 400 = 0))

DaysInMonth(y, m) ==
  IF m = 2 THEN (IF IsLeap(y) THEN 29 ELSE 28)
  ELSE IF m \in {4, 6, 9, 11} THEN 30 ELSE 31

(* what strptime(s, "%Y-%m-%d") accepts; anything else is a ValueError *)
Parses(s) ==
  /\ s.fmt = "ymd"
  /\ s.y \in 1..9999
  /\ s.m \in 1..12
  /\ s.d >= 1
  /\ s.d <= DaysInMonth(s.y, s.m)

RECURSIVE DaysBeforeMonth(_, _)
DaysBeforeMonth(y, m) ==
  IF m <= 1 THEN 0 ELSE DaysBeforeMonth(y, m - 1) + DaysInMonth(y, m - 1)

(* proleptic Gregorian ordinal of a date, as date.toordinal() *)
ToOrdinal(s) ==
  LET py == s.y - 1
  IN py * 365 + (py \div 4) - (py \div 100) + (py \div 400)
     + DaysBeforeMonth(s.y, s.m) + s.d

NA == [isint |-> FALSE, days |-> 0]
IntAge(n) == [isint |-> TRUE, days |-> n]

calculate_age(created_date_str) ==
  IF created_date_str.fmt \in {"none", "empty"} THEN NA
  ELSE IF Parses(created_date_str)
       THEN IntAge(ToOrdinal(Today) - ToOrdinal(created_date_str))
       ELSE NA

(* str(age) *)
AgeToStr(age) == IF age.isint THEN ToString(age.days) ELSE "N/A"

(* ---- the remote service ---- *)

(* results of tags page p: one well-formed record, one without "name",    *)
(* one without "id"; the ids of different pages are disjoint              *)
TagResults(p) ==
  << [id |-> p, name |-> "tag" \o ToString(p)],
     [id |-> p + 100],
     [name |-> "orphan" \o ToString(p)] >>

(* a page whose `next` is its own URL *)
TagsPage_self(nxt, p) == [results |-> TagResults(p), next |-> p]

(* JSON of tags page p under the link structure nxt *)
TagsPage(nxt, p) ==
  IF nxt[p] = {} THEN [results |-> TagResults(p)]
  ELSE [results |-> TagResults(p), next |-> CHOOSE q \in nxt[p] : TRUE]

LinkConfigs == [Pages -> {{}} \cup {{q} : q \in Pages}]

(* the chain 1 -> 2 -> ... -> NPages *)
Chain == [p \in Pages |-> IF p < NPages THEN {p + 1} ELSE {}]
(* the last page points back to the first *)
Ring == [p \in Pages |-> IF p < NPages THEN {p + 1} ELSE {1}]

TagsList(ids) == [null |-> FALSE, ids |-> ids]
TagsNull == [null |-> TRUE, ids |-> <<>>]

(* documents of the list response *)
DocA == [id |-> 1, correspondent |-> 1, tags |-> TagsList(<<1>>),
         created_date |-> Ymd(2025, 1, 17)]
DocB == [id |-> 2, tags |-> TagsList(<<1, 9>>),
         created_date |-> Ymd(2025, 2, 1)]
DocC == [id |-> 3, correspondent |-> 7, tags |-> TagsList(<<>>)]
DocD == [correspondent |-> 1, tags |-> TagsList(<<1>>),
         created_date |-> JunkDate]
DocE == [id |-> 5, correspondent |-> 1, tags |-> TagsNull,
         created_date |-> Ymd(2025, 1, 31)]
DocF == [id |-> 6, created_date |-> Ymd(2025, 2, 30)]

DocG == [id |-> 7, correspondent |-> 2, tags |-> TagsList(<<2>>),
         created_date |-> EmptyDate]

DocPool == {DocA, DocB, DocC, DocD, DocE, DocF, DocG}

SeqsUpTo(S, n) == UNION {[1..k -> S] : k \in 0..n}

DocLists == SeqsUpTo(DocPool, MaxDocs)

(* bodies of the correspondents response *)
CorrResponses ==
  { [results |-> <<>>],
    [results |-> << [id |-> 1, name |-> "ACME"], [name |-> "noid"],
                    [id |-> 2] >>] }

(* bodies of the detail response of a document *)
DetailResponses(doc) ==
  { [original_file_name |-> "o.pdf", archived_file_name |-> "a.pdf",
     created_date |-> Ymd(2025, 1, 17)],
    [original_file_name |-> "o.pdf", created_date |-> Ymd(2025, 1, 31)],
    [original_file_name |-> "o.pdf", archived_file_name |-> "a.pdf",
     created_date |-> Get(doc, "created_date", NoneDate)] }

(* ---- get_correspondents ---- *)
RECURSIVE FilterCorrespondents(_)
FilterCorrespondents(rs) ==
  IF rs = <<>> THEN <<>>
  ELSE LET c == Head(rs)
       IN (IF "id" \in DOMAIN c /\ "name" \in DOMAIN c
           THEN << [id |-> c.id, correspondent |-> c.name] >>
           ELSE <<>>) \o FilterCorrespondents(Tail(rs))

(* ---- get_tags_map: the for loop over one page ---- *)
(* a loop that rebinds the map at each record and so drops what was      *)
(* collected before                                                       *)
RECURSIVE CollectTags_fresh(_, _)
CollectTags_fresh(tags, rs) ==
  IF rs = <<>> THEN tags
  ELSE LET t == Head(rs)
           upd == IF "id" \in DOMAIN t /\ "name" \in DOMAIN t
                  THEN [k \in {t.id} |-> t.name]
                  ELSE tags
       IN CollectTags_fresh(upd, Tail(rs))

RECURSIVE CollectTags(_, _)
CollectTags(tags, rs) ==
  IF rs = <<>> THEN tags
  ELSE LET t == Head(rs)
           upd == IF "id" \in DOMAIN t /\ "name" \in DOMAIN t
                  THEN [k \in DOMAIN tags \cup {t.id} |->
                          IF k = t.id THEN t.name ELSE tags[k]]
                  ELSE tags
       IN CollectTags(upd, Tail(rs))

EmptyMap == [k \in {} |-> ""]

Ev(e, a) == [ev |-> e, arg |-> a]

Init ==
  /\ pc = "correspondents"
  /\ server \in [next : {Chain, Ring}, docs : DocLists]
  /\ correspondents = <<>>
  /\ url = {}
  /\ all_tags = EmptyMap
  /\ docs = <<>>
  /\ subject_line = ""
  /\ sorted_docs = <<>>
  /\ idx = 0
  /\ lines = <<>>
  /\ html_body = <<>>
  /\ log = <<>>
  /\ fetched = <<>>
  /\ trace = <<>>
  /\ mail = <<>>

(* main: correspondents = get_correspondents(); then get_tags_map sets url *)
GetCorrespondentsOk ==
  /\ pc = "correspondents"
  /\ \E data \in CorrResponses :
       correspondents' = FilterCorrespondents(Get(data, "results", <<>>))
  /\ log' = Append(log, Ev("correspondents", 0))
  /\ url' = {1}
  /\ pc' = "tags"
  /\ UNCHANGED <<server, all_tags, docs, subject_line, sorted_docs, idx,
                 lines, html_body, fetched, trace, mail>>

GetCorrespondentsFail ==
  /\ pc = "correspondents"
  /\ correspondents' = <<>>
  /\ log' = Append(log, Ev("correspondents", 0))
  /\ url' = {1}
  /\ pc' = "tags"
  /\ UNCHANGED <<server, all_tags, docs, subject_line, sorted_docs, idx,
                 lines, html_body, fetched, trace, mail>>

TagRequests == Cardinality({i \in DOMAIN log : log[i].ev = "tags"})

(* get_tags_map: one iteration of `while url:` whose request succeeds *)
GetTagsPageOk ==
  /\ pc = "tags"
  /\ url # {}
  /\ TagRequests < MaxTagRequests
  /\ LET p == CHOOSE q \in url : TRUE
         data == TagsPage(server.next, p)
         nxt == IF "next" \in DOMAIN data THEN {data.next} ELSE {}
     IN /\ all_tags' = CollectTags(all_tags, Get(data, "results", <<>>))
        /\ url' = nxt
        /\ pc' = IF nxt = {} THEN "documents" ELSE "tags"
        /\ log' = Append(log, Ev("tags", p))
        /\ fetched' = Append(fetched, p)
  /\ UNCHANGED <<server, correspondents, docs, subject_line, sorted_docs,
                 idx, lines, html_body, trace, mail>>

(* get_tags_map: safe_request returns None, the loop breaks *)
GetTagsPageFail ==
  /\ pc = "tags"
  /\ url # {}
  /\ TagRequests < MaxTagRequests
  /\ log' = Append(log, Ev("tags", CHOOSE q \in url : TRUE))
  /\ pc' = "documents"
  /\ UNCHANGED <<server, correspondents, url, all_tags, docs, subject_line,
                 sorted_docs, idx, lines, html_body, fetched, trace, mail>>

GetDocumentsOk ==
  /\ pc = "documents"
  /\ LET data == [results |-> server.docs]
     IN docs' = Get(data, "results", <<>>)
  /\ log' = Append(log, Ev("documents", 0))
  /\ pc' = "subject"
  /\ UNCHANGED <<server, correspondents, url, all_tags, subject_line,
                 sorted_docs, idx, lines, html_body, fetched, trace, mail>>

GetDocumentsFail ==
  /\ pc = "documents"
  /\ docs' = <<>>
  /\ log' = Append(log, Ev("documents", 0))
  /\ pc' = "subject"
  /\ UNCHANGED <<server, correspondents, url, all_tags, subject_line,
                 sorted_docs, idx, lines, html_body, fetched, trace, mail>>

(* ---- build_subject_line ---- *)
(* the count with the threshold off by one (>= 30) *)
RECURSIVE Over30Count_ge(_)
Over30Count_ge(ds) ==
  IF ds = <<>> THEN 0
  ELSE LET age == calculate_age(Get(Head(ds), "created_date", NoneDate))
       IN (IF age.isint /\ age.days >= 30 THEN 1 ELSE 0)
          + Over30Count_ge(Tail(ds))

RECURSIVE Over30Count(_)
Over30Count(ds) ==
  IF ds = <<>> THEN 0
  ELSE LET age == calculate_age(Get(Head(ds), "created_date", NoneDate))
       IN (IF age.isint /\ age.days > 30 THEN 1 ELSE 0)
          + Over30Count(Tail(ds))

SubjectFormat(total, over) ==
  ToString(total) \o " - files in need of attendance ("
                  \o ToString(over) \o " over 30days)"

build_subject_line(ds) == SubjectFormat(Len(ds), Over30Count(ds))

BuildSubject ==
  /\ pc = "subject"
  /\ subject_line' = build_subject_line(docs)
  /\ log' = Append(log, Ev("subject", 0))
  /\ pc' = "sort"
  /\ UNCHANGED <<server, correspondents, url, all_tags, docs, sorted_docs,
                 idx, lines, html_body, fetched, trace, mail>>

(* ---- build_html_body ---- *)
RECURSIVE CorrMap(_, _)
CorrMap(m, cs) ==
  IF cs = <<>> THEN m
  ELSE LET c == Head(cs)
       IN CorrMap([k \in DOMAIN m \cup {c.id} |->
                     IF k = c.id THEN c.correspondent ELSE m[k]], Tail(cs))

SortKey(d) == calculate_age(Get(d, "created_date", NoneDate))

(* a < b on sort keys is defined for two ints and for two strings only *)
Comparable(a, b) == a.isint = b.isint

(* the TypeError of sorted(): some int key meets some str key *)
SortRaises(ds) ==
  \E i, j \in DOMAIN ds : ~Comparable(SortKey(ds[i]), SortKey(ds[j]))

KeyLess(a, b) == IF a.isint THEN a.days < b.days ELSE FALSE

(* stable insertion for reverse=True: d goes behind every element whose   *)
(* key is not smaller than its own                                        *)
RECURSIVE InsertDesc(_, _)
InsertDesc(s, d) ==
  IF s = <<>> THEN <<d>>
  ELSE IF KeyLess(SortKey(Head(s)), SortKey(d)) THEN <<d>> \o s
       ELSE <<Head(s)>> \o InsertDesc(Tail(s), d)

(* no sorting at all: the documents in the order of the list response *)
SortedDesc_unsorted(ds) == ds

RECURSIVE SortedDesc(_)
SortedDesc(ds) ==
  IF ds = <<>> THEN <<>>
  ELSE InsertDesc(SortedDesc(SubSeq(ds, 1, Len(ds) - 1)), ds[Len(ds)])

(* lines 152-156: corr_map, sorted_docs, lines = [] *)
BodySortOk ==
  /\ pc = "sort"
  /\ ~SortRaises(docs)
  /\ sorted_docs' = SortedDesc(docs)
  /\ idx' = 1
  /\ lines' = <<>>
  /\ pc' = "body"
  /\ UNCHANGED <<server, correspondents, url, all_tags, docs, subject_line,
                 html_body, log, fetched, trace, mail>>

(* sorted() raises TypeError outside the loop's try; main's handler       *)
(* (line 267) prints it and the run ends                                  *)
BodySortRaises ==
  /\ pc = "sort"
  /\ SortRaises(docs)
  /\ pc' = "aborted"
  /\ UNCHANGED <<server, correspondents, url, all_tags, docs, subject_line,
                 sorted_docs, idx, lines, html_body, log, fetched, trace,
                 mail>>

(* ---- get_document_details: the tuple it returns ---- *)
DetailsOf(data) ==
  [original_file_name |-> Get(data, "original_file_name", "N/A"),
   archived_file_name |-> Get(data, "archived_file_name", "N/A"),
   created_date |-> Get(data, "created_date", NoneDate)]

(* a failed detail request that falls back to a stale creation date *)
DetailsFailed_stale ==
  [original_file_name |-> "N/A", archived_file_name |-> "N/A",
   created_date |-> Ymd(2025, 1, 17)]

DetailsFailed ==
  [original_file_name |-> "N/A", archived_file_name |-> "N/A",
   created_date |-> NoneDate]

TagName(tag_map, tid) ==
  IF tid \in DOMAIN tag_map THEN tag_map[tid] ELSE "Tag-" \o ToString(tid)

RECURSIVE JoinTags(_, _)
JoinTags(tag_map, ids) ==
  IF ids = <<>> THEN ""
  ELSE IF Len(ids) = 1 THEN TagName(tag_map, ids[1])
  ELSE TagName(tag_map, ids[1]) \o ", " \o JoinTags(tag_map, Tail(ids))

(* iterating doc_tags raises TypeError when the field is null *)
DocRaises(doc) == "tags" \in DOMAIN doc /\ doc.tags.null

Highlighted(age) == age.isint /\ age.days > 31

(* lines 166-193: the list item of a document *)
RenderItem(doc, det, corr_map, tag_map) ==
  LET has_corr == "correspondent" \in DOMAIN doc
                  /\ doc.correspondent \in DOMAIN corr_map
      age == calculate_age(det.created_date)
      ids == Get(doc, "tags", TagsList(<<>>)).ids
  IN [doc_id |-> doc.id,
      corr_name |-> IF has_corr THEN corr_map[doc.correspondent]
                    ELSE "No Correspondent",
      age |-> age,
      age_str |-> IF Highlighted(age)
                  THEN "<span style='color:red;'>" \o AgeToStr(age)
                       \o "</span>"
                  ELSE AgeToStr(age),
      tags_str |-> IF ids = <<>> THEN "None" ELSE JoinTags(tag_map, ids),
      original_file_name |-> det.original_file_name,
      archived_file_name |-> det.archived_file_name]

Placeholder == [li |-> "No documents found."]

(* the rest of one loop iteration once the detail tuple det is known *)
FinishDoc(doc, det, fetch) ==
  /\ lines' = IF DocRaises(doc) THEN lines
              ELSE Append(lines, RenderItem(doc, det,
                                            CorrMap(EmptyMap, correspondents),
                                            all_tags))
  /\ trace' = Append(trace, [doc |-> doc, detail |-> fetch,
                             result |-> IF DocRaises(doc) THEN "error"
                                        ELSE "item"])
  /\ log' = Append(log, Ev("detail", doc.id))
  /\ idx' = idx + 1
  /\ UNCHANGED <<pc, server, correspondents, url, all_tags, docs,
                 subject_line, sorted_docs, html_body, fetched, mail>>

(* `if not doc_id: continue` *)
ProcessDocNoId ==
  /\ pc = "body"
  /\ idx <= Len(sorted_docs)
  /\ "id" \notin DOMAIN sorted_docs[idx]
  /\ trace' = Append(trace, [doc |-> sorted_docs[idx], detail |-> "none",
                             result |-> "noid"])
  /\ idx' = idx + 1
  /\ UNCHANGED <<pc, server, correspondents, url, all_tags, docs,
                 subject_line, sorted_docs, lines, html_body, log, fetched,
                 mail>>

ProcessDocDetailOk ==
  /\ pc = "body"
  /\ idx <= Len(sorted_docs)
  /\ "id" \in DOMAIN sorted_docs[idx]
  /\ \E data \in DetailResponses(sorted_docs[idx]) :
       FinishDoc(sorted_docs[idx], DetailsOf(data), "ok")

ProcessDocDetailFail ==
  /\ pc = "body"
  /\ idx <= Len(sorted_docs)
  /\ "id" \in DOMAIN sorted_docs[idx]
  /\ FinishDoc(sorted_docs[idx], DetailsFailed, "failed")

(* a placeholder that is appended whether or not there are items *)
FinalLines_always(ls) == Append(ls, Placeholder)

(* lines 198-199: `if not lines: lines.append(...)` *)
FinalLines(ls) == IF ls = <<>> THEN <<Placeholder>> ELSE ls

(* lines 198-215 *)
FinishBody ==
  /\ pc = "body"
  /\ idx > Len(sorted_docs)
  /\ LET final == FinalLines(lines)
     IN /\ lines' = final
        /\ html_body' = <<[charset |-> "utf-8", items |-> final]>>
  /\ log' = Append(log, Ev("body", 0))
  /\ pc' = "mail"
  /\ UNCHANGED <<server, correspondents, url, all_tags, docs, subject_line,
                 sorted_docs, idx, fetched, trace, mail>>

(* send_email_with_mail_command: exit status 0, non-zero, or Popen raises; *)
(* all three are handled inside the function                               *)
SendMail ==
  /\ pc = "mail"
  /\ \E outcome \in {"sent", "failed", "error"} :
       mail' = Append(mail, [subject |-> subject_line, body |-> html_body[1],
                             outcome |-> outcome])
  /\ log' = Append(log, Ev("mail", 0))
  /\ pc' = "completed"
  /\ UNCHANGED <<server, correspondents, url, all_tags, docs, subject_line,
                 sorted_docs, idx, lines, html_body, fetched, trace>>

Next ==
  \/ GetCorrespondentsOk
  \/ GetCorrespondentsFail
  \/ GetTagsPageOk
  \/ GetTagsPageFail
  \/ GetDocumentsOk
  \/ GetDocumentsFail
  \/ BuildSubject
  \/ BodySortOk
  \/ BodySortRaises
  \/ ProcessDocNoId
  \/ ProcessDocDetailOk
  \/ ProcessDocDetailFail
  \/ FinishBody
  \/ SendMail

Spec == Init /\ [][Next]_vars

(* every link structure of the tags pages, a few document lists *)
TagsDocLists == { <<DocA, DocC>>, <<DocD, DocC>>, <<DocE>> }

InitTags ==
  /\ pc = "correspondents"
  /\ server \in [next : LinkConfigs, docs : TagsDocLists]
  /\ correspondents = <<>>
  /\ url = {}
  /\ all_tags = EmptyMap
  /\ docs = <<>>
  /\ subject_line = ""
  /\ sorted_docs = <<>>
  /\ idx = 0
  /\ lines = <<>>
  /\ html_body = <<>>
  /\ log = <<>>
  /\ fetched = <<>>
  /\ trace = <<>>
  /\ mail = <<>>

(* the script is one sequential thread and every request returns within   *)
(* TIMEOUT, so a step that is possible is eventually taken                 *)
FairSpecTags == InitTags /\ [][Next]_vars /\ WF_vars(Next)

(* ---- properties ---- *)

BodyReturned == pc \in {"mail", "completed"}
RunEnded == pc \in {"completed", "aborted"}
IsItem(l) == "doc_id" \in DOMAIN l
ItemCount(k) == Cardinality({j \in 1..k : trace[j].result = "item"})
EventsOf(e) == {i \in DOMAIN log : log[i].ev = e}

(* C1: one bad record never aborts the report: build_html_body always     *)
(* returns a body, in which exactly the documents that have an id and     *)
(* whose processing did not fail have their list item                     *)
C1_BadRecordNeverAborts ==
  (pc \notin {"correspondents", "tags", "documents", "subject", "sort",
              "body"})
    => /\ html_body # <<>>
       /\ Cardinality({i \in DOMAIN lines : IsItem(lines[i])})
            = Cardinality({i \in DOMAIN docs :
                             "id" \in DOMAIN docs[i] /\ ~DocRaises(docs[i])})

(* C2: whatever fetches fail and whatever the mail command returns, the    *)
(* run ends at its "completed" step with exactly one mail invocation      *)
C2_RunCompletesWithOneMail ==
  /\ Len(mail) <= 1
  /\ RunEnded => (pc = "completed" /\ Len(mail) = 1)

(* C3: the subject is "{total} - files in need of attendance ({over_30}   *)
(* over 30days)", total the number of fetched documents, over_30 the      *)
(* number of them whose age is an integer of at least 31 days             *)
C3_SubjectLine ==
  (pc \notin {"correspondents", "tags", "documents", "subject"})
    => subject_line =
         ToString(Len(docs)) \o " - files in need of attendance ("
         \o ToString(Cardinality(
               {i \in DOMAIN docs :
                  /\ "created_date" \in DOMAIN docs[i]
                  /\ Parses(docs[i].created_date)
                  /\ ToOrdinal(Today) - ToOrdinal(docs[i].created_date)
                       >= 31}))
         \o " over 30days)"

(* documents of age 31 (counted) and 30 (not counted), the first of them  *)
(* skipped by the report builder                                          *)
C3_Witness ==
  /\ pc = "mail"
  /\ docs = <<DocE, DocB>>
  /\ subject_line = "2 - files in need of attendance (1 over 30days)"
  /\ \E k \in DOMAIN trace : trace[k].result = "error"

WellFormedPairs(p) ==
  { <<TagResults(p)[j].id, TagResults(p)[j].name>> :
      j \in {i \in DOMAIN TagResults(p) :
               "id" \in DOMAIN TagResults(p)[i]
               /\ "name" \in DOMAIN TagResults(p)[i]} }

(* C4: at every point the tag map is exactly the union of the well-formed *)
(* records of the pages fetched so far, also after a later page failed    *)
C4_TagsUnion ==
  { <<k, all_tags[k]>> : k \in DOMAIN all_tags }
    = UNION { WellFormedPairs(fetched[i]) : i \in DOMAIN fetched }

(* page 1 fetched, the request of page 2 failed *)
C4_Witness ==
  /\ pc = "documents"
  /\ fetched = <<1>>
  /\ Cardinality(EventsOf("tags")) = 2
  /\ DOMAIN all_tags = {1}

(* C5: of two rendered items with integer ages, the one with the larger   *)
(* displayed age comes first                                              *)
C5_SortedByDisplayedAge ==
  \A i, j \in DOMAIN lines :
    (i < j /\ IsItem(lines[i]) /\ IsItem(lines[j])
       /\ lines[i].age.isint /\ lines[j].age.isint)
      => lines[i].age.days >= lines[j].age.days

C7_Placeholder ==
  BodyReturned =>
    LET items == html_body[1].items
        has == \E i \in DOMAIN items : items[i] = Placeholder
    IN /\ has <=> (\A k \in DOMAIN trace : trace[k].result # "item")
       /\ has => items = <<Placeholder>>
       /\ ~has => /\ Len(items) = ItemCount(Len(trace))
                  /\ \A i \in DOMAIN items : IsItem(items[i])
       /\ docs = <<>> =>
            /\ has
            /\ subject_line
                 = "0 - files in need of attendance (0 over 30days)"

(* every document of a non-empty list was skipped *)
C7_Witness ==
  /\ BodyReturned
  /\ Len(docs) = 2
  /\ html_body[1].items = <<Placeholder>>
  /\ Len(trace) = 2
  /\ \A k \in DOMAIN trace : trace[k].result \in {"error", "noid"}

Follows(a, b) ==
  <<a, b>> \in { <<"correspondents", "tags">>, <<"tags", "tags">>,
                 <<"tags", "documents">>, <<"documents", "subject">>,
                 <<"subject", "detail">>, <<"subject", "body">>,
                 <<"detail", "detail">>, <<"detail", "body">>,
                 <<"body", "mail">> }

RECURSIVE IdsOf(_)
IdsOf(ds) ==
  IF ds = <<>> THEN <<>>
  ELSE (IF "id" \in DOMAIN Head(ds) THEN <<Head(ds).id>> ELSE <<>>)
       \o IdsOf(Tail(ds))

RECURSIVE DetailArgs(_)
DetailArgs(l) ==
  IF l = <<>> THEN <<>>
  ELSE (IF Head(l).ev = "detail" THEN <<Head(l).arg>> ELSE <<>>)
       \o DetailArgs(Tail(l))

(* C8: the requests and steps of a run come in the order correspondents,  *)
(* tags pages, documents, subject, detail requests, body, mail; the       *)
(* detail requests are those of the documents that have an id, one each,  *)
(* in the order of the list sorted by descending age; the mail command    *)
(* gets the finished body                                                 *)
C8_LinearControlFlow ==
  /\ log # <<>> => log[1].ev = "correspondents"
  /\ \A i \in DOMAIN log : i > 1 => Follows(log[i - 1].ev, log[i].ev)
  /\ \A e \in {"correspondents", "documents", "subject", "body", "mail"} :
       Cardinality(EventsOf(e)) <= 1
  /\ pc \in {"body", "mail", "completed"} =>
       /\ DetailArgs(log) = IdsOf(SubSeq(sorted_docs, 1, idx - 1))
       /\ Len(sorted_docs) = Len(docs)
       /\ \E f \in [DOMAIN docs -> DOMAIN docs] :
            /\ \A a, b \in DOMAIN docs : a # b => f[a] # f[b]
            /\ \A a \in DOMAIN docs : sorted_docs[a] = docs[f[a]]
       /\ \A a, b \in DOMAIN sorted_docs :
            a < b => ~KeyLess(SortKey(sorted_docs[a]), SortKey(sorted_docs[b]))
  /\ pc \notin {"body", "mail", "completed"} => EventsOf("detail") = {}
  /\ EventsOf("mail") # {} =>
       /\ Len(mail) = 1
       /\ html_body # <<>>
       /\ mail[1].body = html_body[1]
       /\ mail[1].subject = subject_line
       /\ idx = Len(sorted_docs) + 1

(* a completed run with two tags requests and two detail requests whose   *)
(* order differs from the order of the list response                      *)
C8_Witness ==
  /\ pc = "completed"
  /\ Cardinality(EventsOf("tags")) >= 2
  /\ Cardinality(EventsOf("detail")) = 2
  /\ sorted_docs # docs

EachPageOnce ==
  \A i, j \in EventsOf("tags") : i # j => log[i].arg # log[j].arg

(* C9 as stated: every tags page URL is requested at most once, whatever  *)
(* `next` links the pages carry                                           *)
C9_EachPageAtMostOnce == EachPageOnce

(* the page reached from page 1 after n hops along the links, if any *)
RECURSIVE Hop(_, _)
Hop(nxt, n) ==
  IF n = 0 THEN {1}
  ELSE UNION {nxt[p] : p \in Hop(nxt, n - 1)}

(* following the links from the first page never comes back to a page *)
NoRevisit(nxt) ==
  \A a, b \in 0..NPages : a # b => Hop(nxt, a) \cap Hop(nxt, b) = {}

(* C9 amended: when the `next` links never lead back to a page already    *)
(* requested, each page is requested at most once and the loop ends       *)
C9_TerminatesWithoutRevisit ==
  /\ [](NoRevisit(server.next) => EachPageOnce)
  /\ (NoRevisit(server.next) ~> (pc \notin {"correspondents", "tags"}))

(* the loop ended after it followed the whole chain of pages *)
C9_Witness ==
  /\ pc = "documents"
  /\ NoRevisit(server.next)
  /\ Len(fetched) = NPages
  /\ url = {}

(* C10: the number of highlighted items never exceeds the over-30 count   *)
(* of the subject                                                         *)
C10_HighlightedCounted ==
  Cardinality({i \in DOMAIN lines :
                 IsItem(lines[i]) /\ Highlighted(lines[i].age)})
    <= Over30Count(docs)
====
